---- MODULE Spec2Model ----
(***************************************************************************)
(* Project Lumiere, client side: the user-preferences context, the          *)
(* favourites context, the API service and the recommendations page.        *)
(* JavaScript runs one task at a time: every action below is one task (an   *)
(* event handler, one render with its effects, or the continuation of an    *)
(* async function from one await to the next).                              *)
(***************************************************************************)
EXTENDS Integers, Sequences, FiniteSets, TLC

VARIABLES
    selectedTags,              \* UserPreferencesProvider: useState([])
    calibrationSettings,       \* UserPreferencesProvider: useState({era:5,...})
    recommendationError,       \* UserPreferencesProvider: recommendationStatus.error
    apiFilters,                \* the value the last call of getApiFilters() returned
    likedMovies,               \* FavoritesProvider: useState([])
    movies,                    \* RecommendationsPage: useState([])
    inputValue,                \* RecommendationsPage: useState('')
    showMatrixLoading,         \* RecommendationsPage: useState(shouldShowMatrixLoading)
    hasLoadedRecommendations,  \* RecommendationsPage: useRef(false)
    lastTagsHash,              \* RecommendationsPage: useRef('')
    lastCalibrationHash,       \* RecommendationsPage: useRef('')
    isFetching,                \* RecommendationsPage: useRef(false)
    fetchCall,                 \* the running fetchRecommendations(): position and closure
    net,                       \* the HTTP request of ApiService.request that is in flight
    renderDue,                 \* state changed since the page last rendered
    effectDue,                 \* a dependency of the fetch effect changed since it last ran
    unhandledRejection,        \* a fetchRecommendations() promise was rejected
    sent,                      \* log: the tag-based requests issued since tags/calibration last changed
    delivered,                 \* log: the outcome of the request answered in the last task, if any
    loadedBy,                  \* log: the branch of fetchRecommendations that set movies last
    opsLeft,                   \* budget of preference operations (bounds the tag-selection runs)
    knob,                      \* Knob: the motion value y and transformedValue of each knob
    search,                    \* TagSelectionPageNew: the keyword search and its calls in flight
    importPage,                \* ImportPage: its state, its interval timers and polls in flight
    api,                       \* ApiProvider: its state, and the requests of ApiService in flight
    currentIndex               \* FavoritesPage: useState(0)

vars == <<selectedTags, calibrationSettings, recommendationError, apiFilters,
          likedMovies, movies, inputValue, showMatrixLoading, hasLoadedRecommendations,
          lastTagsHash, lastCalibrationHash, isFetching, fetchCall, net, renderDue,
          effectDue, unhandledRejection, sent, delivered, loadedBy, opsLeft,
          knob, search, importPage, api, currentIndex>>

prefVars == <<selectedTags, calibrationSettings, recommendationError>>
pageVars == <<movies, inputValue, showMatrixLoading, hasLoadedRecommendations,
              lastTagsHash, lastCalibrationHash, isFetching, fetchCall, net,
              renderDue, effectDue, unhandledRejection, sent, delivered, loadedBy>>
compVars == <<knob, search, importPage, api, currentIndex>>
clientVars == <<prefVars, apiFilters, likedMovies, pageVars, opsLeft>>

(***************************************************************************)
(* Bounds of the model.                                                     *)
(***************************************************************************)
NTags == 26         \* size of the tag vocabulary the tag-selection page offers
MaxOps == 2         \* preference operations in one tag-selection run
NPageTags == 2      \* tags that are (de)selected while the recommendations page is mounted
MaxResp == 21       \* entries of the longest backend response
MaxLikeId == 1      \* movies with an id up to this one get liked and unliked
MaxSearches == 2    \* calls of searchKeywords in flight at a time
MaxUploads == 2     \* ZIP files chosen on the import page
MaxPolls == 3       \* status polls in flight at a time
MaxApiCalls == 1    \* /recommendations requests in flight at a time
NFavorites == 9      \* favourites at the start of a run of the favourites page

(***************************************************************************)
(* Program constants.                                                       *)
(***************************************************************************)
NLoadingSteps == 13 \* LoadingPage: loadingSteps.length
moviesPerPage == 4  \* FavoritesPage: moviesPerPage
maxTags == 25       \* UserPreferencesProvider value.maxTags, and the literal in addTag
RequestCount == 20  \* the count the page passes to getTagBasedRecommendations
SliceEnd == 20      \* filteredMovies: .slice(0, 20)

null == "null"

Tags == 1..NTags
PageTags == 1..NPageTags

(***************************************************************************)
(* JavaScript helpers.                                                      *)
(***************************************************************************)
Range(s) == {s[i] : i \in 1..Len(s)}

\* Array.prototype.includes
includes(s, x) == \E i \in 1..Len(s) : s[i] = x

\* Array.prototype.filter with the predicate given as the set of kept values
RECURSIVE filterSeq(_, _)
filterSeq(s, keep) ==
    IF s = <<>> THEN <<>>
    ELSE IF Head(s) \in keep THEN <<Head(s)>> \o filterSeq(Tail(s), keep)
         ELSE filterSeq(Tail(s), keep)

\* Array.prototype.slice(0, n)
slice0(s, n) == IF Len(s) <= n THEN s ELSE SubSeq(s, 1, n)

\* Array.prototype.sort() on tags: ascending, stable (tags are ordered as their strings are)
RECURSIVE insertSorted(_, _)
insertSorted(s, x) ==
    IF s = <<>> THEN <<x>>
    ELSE IF x < Head(s) THEN <<x>> \o s
         ELSE <<Head(s)>> \o insertSorted(Tail(s), x)

RECURSIVE sort(_)
sort(s) == IF s = <<>> THEN <<>> ELSE insertSorted(sort(SubSeq(s, 1, Len(s) - 1)), s[Len(s)])

\* JSON.stringify is injective on arrays of strings and on objects with a fixed key
\* order: the serialised text is modelled by the value it serialises.
stringify(v) == <<v>>
EmptyString == <<>>

\* String.prototype.toLowerCase, per character, on the characters titles are made of
toLowerChar(c) ==
    CASE c = "A" -> "a" [] c = "B" -> "b" [] c = "I" -> "i" [] c = "P" -> "p" [] OTHER -> c

toLowerCase(s) == [i \in 1..Len(s) |-> toLowerChar(s[i])]

\* String.prototype.includes: sub occurs in s as a contiguous run
strIncludes(s, sub) ==
    \E off \in 0..(Len(s) - Len(sub)) : \A i \in 1..Len(sub) : s[off + i] = sub[i]

\* An optional field: present with a value, or undefined
Some(v) == [defined |-> TRUE, v |-> v]
NoList == [defined |-> FALSE, v |-> <<>>]
NoNumber == [defined |-> FALSE, v |-> 0]

(***************************************************************************)
(* UserPreferencesContext                                                   *)
(***************************************************************************)
DefaultCalibration == [era |-> 5, runtime |-> 5, popularity |-> 5, familiarity |-> 5]
SettingKeys == {"era", "runtime", "popularity", "familiarity"}
SettingValues == 1..10

\* keywordIdMapping (keywordsData): a static, many-to-one table from some of the
\* tags to provider keyword ids; a tag without an entry reads as undefined.
keywordIdMapping(tag) == IF tag % 2 = 1 THEN Some(100 + (tag % 4)) ELSE NoNumber

\* getApiFilters with the first era threshold off by one (era < 3)
getApiFiltersEraOffByOne(cs) ==
    [min_year    |-> IF cs.era < 3 THEN NoNumber ELSE IF cs.era <= 7 THEN Some(1980) ELSE Some(2010),
     max_year    |-> IF cs.era < 3 THEN Some(1980) ELSE IF cs.era <= 7 THEN Some(2010) ELSE NoNumber,
     min_runtime |-> IF cs.runtime <= 3 THEN NoNumber ELSE IF cs.runtime <= 7 THEN Some(90) ELSE Some(150),
     max_runtime |-> IF cs.runtime <= 3 THEN Some(90) ELSE IF cs.runtime <= 7 THEN Some(150) ELSE NoNumber,
     min_rating  |-> IF cs.popularity <= 3 THEN NoNumber ELSE IF cs.popularity <= 7 THEN Some(60) ELSE Some(75),
     max_rating  |-> IF cs.popularity <= 3 THEN Some(60) ELSE IF cs.popularity <= 7 THEN Some(75) ELSE NoNumber]

\* getApiFilters: ratings are kept in tenths (6.0 is 60, 7.5 is 75)
getApiFilters(cs) ==
    [min_year    |-> IF cs.era <= 3 THEN NoNumber ELSE IF cs.era <= 7 THEN Some(1980) ELSE Some(2010),
     max_year    |-> IF cs.era <= 3 THEN Some(1980) ELSE IF cs.era <= 7 THEN Some(2010) ELSE NoNumber,
     min_runtime |-> IF cs.runtime <= 3 THEN NoNumber ELSE IF cs.runtime <= 7 THEN Some(90) ELSE Some(150),
     max_runtime |-> IF cs.runtime <= 3 THEN Some(90) ELSE IF cs.runtime <= 7 THEN Some(150) ELSE NoNumber,
     min_rating  |-> IF cs.popularity <= 3 THEN NoNumber ELSE IF cs.popularity <= 7 THEN Some(60) ELSE Some(75),
     max_rating  |-> IF cs.popularity <= 3 THEN Some(60) ELSE IF cs.popularity <= 7 THEN Some(75) ELSE NoNumber]

NoFilters == [min_year |-> NoNumber, max_year |-> NoNumber, min_runtime |-> NoNumber,
              max_runtime |-> NoNumber, min_rating |-> NoNumber, max_rating |-> NoNumber]

\* getTagIds: selectedTags.map(tag => keywordIdMapping[tag]).filter(id => id !== undefined)
RECURSIVE mapTagIds(_)
mapTagIds(tags) ==
    IF tags = <<>> THEN <<>> ELSE <<keywordIdMapping(Head(tags))>> \o mapTagIds(Tail(tags))

RECURSIVE dropUndefined(_)
dropUndefined(ids) ==
    IF ids = <<>> THEN <<>>
    ELSE IF Head(ids).defined THEN <<Head(ids)>> \o dropUndefined(Tail(ids))
         ELSE dropUndefined(Tail(ids))

getTagIds(tags) == dropUndefined(mapTagIds(tags))

\* The hashes the recommendations page keeps of the preferences
tagsHash(tags) == stringify(sort(tags))
calibrationHash(cs) == stringify(cs)

\* A setter of the provider ran: the provider renders again, every function of the
\* context value is a new one, and the page's fetch effect (which lists
\* clearRecommendationStatus and setRecommendationError) is due after the render.
\* The log of requests is kept per (tags, calibration) pair.
ProviderChanged(newTags, newCalibration) ==
    /\ renderDue' = TRUE
    /\ effectDue' = TRUE
    /\ sent' = IF tagsHash(newTags) = tagsHash(selectedTags)
                  /\ calibrationHash(newCalibration) = calibrationHash(calibrationSettings)
               THEN sent ELSE <<>>

\* addTag without the length test
addTagNoLimit(tag) ==
    /\ IF ~includes(selectedTags, tag)
       THEN /\ selectedTags' = Append(selectedTags, tag)
            /\ ProviderChanged(selectedTags', calibrationSettings)
       ELSE UNCHANGED <<selectedTags, renderDue, effectDue, sent>>
    /\ UNCHANGED <<calibrationSettings, recommendationError>>

addTag(tag) ==
    /\ IF ~includes(selectedTags, tag) /\ Len(selectedTags) < maxTags
       THEN /\ selectedTags' = Append(selectedTags, tag)
            /\ ProviderChanged(selectedTags', calibrationSettings)
       ELSE UNCHANGED <<selectedTags, renderDue, effectDue, sent>>
    /\ UNCHANGED <<calibrationSettings, recommendationError>>

removeTag(tag) ==
    /\ selectedTags' = filterSeq(selectedTags, Range(selectedTags) \ {tag})
    /\ ProviderChanged(selectedTags', calibrationSettings)
    /\ UNCHANGED <<calibrationSettings, recommendationError>>

updateSetting(key, value) ==
    /\ calibrationSettings' = [calibrationSettings EXCEPT ![key] = value]
    /\ ProviderChanged(selectedTags, calibrationSettings')
    /\ UNCHANGED <<selectedTags, recommendationError>>

\* TagSelectionPageNew; tagCount and maxTags come from the context value
handleTagClick(tag) ==
    IF includes(selectedTags, tag) THEN removeTag(tag)
    ELSE IF Len(selectedTags) < maxTags THEN addTag(tag)
    ELSE UNCHANGED <<prefVars, renderDue, effectDue, sent>>

handleSearchResultClick(keyword) ==
    IF ~includes(selectedTags, keyword) /\ Len(selectedTags) < maxTags THEN addTag(keyword)
    ELSE UNCHANGED <<prefVars, renderDue, effectDue, sent>>

(***************************************************************************)
(* ApiService                                                               *)
(***************************************************************************)
\* What fetch() yields for a request: the promise rejects (network error), the
\* response has a non-OK status, or it is OK and response.json() parses to a body.
Rejected == [kind |-> "reject", body |-> [present |-> FALSE, recommendations |-> NoList]]
HttpError == [kind |-> "status", body |-> [present |-> FALSE, recommendations |-> NoList]]
Json(b) == [kind |-> "json", body |-> b]

\* Bodies: the JSON value null, an object without a recommendations field, an
\* object whose recommendations field is the list recs
NullBody == [present |-> FALSE, recommendations |-> NoList]
ObjectWithout == [present |-> TRUE, recommendations |-> NoList]
ObjectWith(recs) == [present |-> TRUE, recommendations |-> Some(recs)]

\* ApiService.request: throws on a rejected fetch and on a non-OK status,
\* returns the parsed body otherwise
request(outcome) ==
    IF outcome.kind = "json"
    THEN [threw |-> FALSE, value |-> outcome.body]
    ELSE [threw |-> TRUE, value |-> NullBody]

NoRequest == [endpoint |-> "none", user_tags |-> <<>>,
              calibration_settings |-> DefaultCalibration,
              max_recommendations |-> 0, state |-> "idle"]

\* getTagBasedRecommendations(userTags, calibrationSettings, userMovies, count)
getTagBasedRecommendations(userTags, cs, count) ==
    [endpoint |-> "/recommendations/tag-based", user_tags |-> userTags,
     calibration_settings |-> cs, max_recommendations |-> count, state |-> "pending"]

\* getDiscoveryRecommendations({count})
getDiscoveryRecommendations(count) ==
    [endpoint |-> "/recommendations/discovery", user_tags |-> <<>>,
     calibration_settings |-> DefaultCalibration,
     max_recommendations |-> count, state |-> "pending"]

(***************************************************************************)
(* RecommendationsPage: data                                                *)
(***************************************************************************)
Year(y) == [known |-> TRUE, num |-> y]
Unknown == [known |-> FALSE, num |-> 0]

getFallbackMovies ==
    << [id |-> 1, title |-> <<"A", "v", "a", "t", "a", "r">>, year |-> Year(2009),
        source_tags |-> NoList],
       [id |-> 2, title |-> <<"I", "n", "c", "e", "p", "t", "i", "o", "n">>, year |-> Year(2010),
        source_tags |-> NoList],
       [id |-> 3, title |-> <<"P", "a", "r", "a", "s", "i", "t", "e">>, year |-> Year(2019),
        source_tags |-> NoList] >>

\* The tag-based transform reading movie.id, a field tag-based entries do not
\* have (the identifier of every entry is then the same undefined value, here 0)
transformTagMovieWrongId(movie) ==
    [id |-> 0,
     title |-> movie.title,
     year |-> IF movie.release_date.defined THEN Year(movie.release_date.v[1]) ELSE Unknown,
     source_tags |-> IF movie.source_tags.defined THEN movie.source_tags ELSE Some(<<>>)]

\* The tag-based transform of one entry of response.recommendations
transformTagMovie(movie) ==
    [id |-> movie.tmdb_id,
     title |-> movie.title,
     year |-> IF movie.release_date.defined THEN Year(movie.release_date.v[1]) ELSE Unknown,
     source_tags |-> IF movie.source_tags.defined THEN movie.source_tags ELSE Some(<<>>)]

\* The discovery transform of one entry of discoveryResponse.recommendations
transformDiscoveryMovie(movie) ==
    [id |-> movie.id,
     title |-> movie.title,
     year |-> IF movie.year.defined THEN Year(movie.year.v) ELSE Unknown,
     source_tags |-> IF movie.source_tags.defined THEN movie.source_tags ELSE Some(<<>>)]

\* The tag-based map with the entries in reverse order
mapTagReversed(recs) == [i \in 1..Len(recs) |-> transformTagMovie(recs[Len(recs) + 1 - i])]

mapTag(recs) == [i \in 1..Len(recs) |-> transformTagMovie(recs[i])]
mapDiscovery(recs) == [i \in 1..Len(recs) |-> transformDiscoveryMovie(recs[i])]

\* filteredMovies: likedMovies holds movie objects and the first filter looks the
\* movie's id up among them
likedIncludes(liked, id) == \E i \in 1..Len(liked) : liked[i].isNumber /\ liked[i].num = id

\* filteredMovies without the slice
filteredMoviesNoSlice(ms, liked, input) ==
    LET notLiked == {ms[i] : i \in {j \in 1..Len(ms) : ~likedIncludes(liked, ms[j].id)}}
        byTitle  == {m \in notLiked : strIncludes(toLowerCase(m.title), toLowerCase(input))}
    IN filterSeq(ms, byTitle)

filteredMovies(ms, liked, input) ==
    LET notLiked == {ms[i] : i \in {j \in 1..Len(ms) : ~likedIncludes(liked, ms[j].id)}}
        byTitle  == {m \in notLiked : strIncludes(toLowerCase(m.title), toLowerCase(input))}
    IN slice0(filterSeq(ms, byTitle), SliceEnd)

(***************************************************************************)
(* The backend, as the page can observe it                                  *)
(***************************************************************************)
titleOf(i) ==
    CASE i % 3 = 0 -> <<"A", "b">>
      [] i % 3 = 1 -> <<"b", "a">>
      [] OTHER     -> <<"c">>

tagEntry(i, st) ==
    [tmdb_id |-> i, title |-> titleOf(i), release_date |-> Some(<<2000 + i, 7, 16>>),
     source_tags |-> st]

discoveryEntry(i) ==
    [id |-> i, title |-> titleOf(i), year |-> Some(2000 + i), source_tags |-> NoList]

tagList(n, st) == [i \in 1..n |-> tagEntry(i, st)]
discoveryList(n) == [i \in 1..n |-> discoveryEntry(i)]

(***************************************************************************)
(* The scoring engine behind /recommendations/tag-based                     *)
(***************************************************************************)
\* The catalogue of the metadata provider: release year of movie i
yearOf(i) == IF i % 4 = 0 THEN 1975 ELSE IF i % 4 = 3 THEN 2015 ELSE 1990 + i

\* MetadataGateway.searchByTag: the candidates the tag surfaces
searchByTag(tag) ==
    [k \in 1..3 |-> [tmdb_id |-> tag + k - 1, title |-> titleOf(tag + k - 1),
                     release_date |-> Some(<<yearOf(tag + k - 1), 7, 16>>),
                     source_tags |-> Some(<<tag>>)]]

\* CandidateAggregator: the superlist keyed by movie identifier; a movie that
\* several tags return keeps one entry whose source_tags is the union
RECURSIVE mergeCandidate(_, _)
mergeCandidate(superlist, c) ==
    IF superlist = <<>> THEN <<c>>
    ELSE IF Head(superlist).tmdb_id = c.tmdb_id
         THEN <<[Head(superlist) EXCEPT
                   !.source_tags = Some(Head(superlist).source_tags.v \o c.source_tags.v)]>>
              \o Tail(superlist)
         ELSE <<Head(superlist)>> \o mergeCandidate(Tail(superlist), c)

RECURSIVE mergeAll(_, _)
mergeAll(superlist, cands) ==
    IF cands = <<>> THEN superlist
    ELSE mergeAll(mergeCandidate(superlist, Head(cands)), Tail(cands))

RECURSIVE CandidateAggregator(_)
CandidateAggregator(tags) ==
    IF tags = <<>> THEN <<>>
    ELSE mergeAll(CandidateAggregator(SubSeq(tags, 1, Len(tags) - 1)),
                  searchByTag(tags[Len(tags)]))

\* CalibrationFilter: a candidate whose year lies outside the era bucket is dropped
inEra(year, filters) ==
    /\ filters.min_year.defined => year >= filters.min_year.v
    /\ filters.max_year.defined => year <= filters.max_year.v

CalibrationFilter(cands, cs) ==
    filterSeq(cands, {c \in Range(cands) : inEra(c.release_date.v[1], getApiFilters(cs))})

\* Ranker: more source tags first, ties by identifier; truncated to the count
RECURSIVE rankInsert(_, _)
rankInsert(ranked, c) ==
    IF ranked = <<>> THEN <<c>>
    ELSE IF Len(c.source_tags.v) > Len(Head(ranked).source_tags.v) THEN <<c>> \o ranked
         ELSE <<Head(ranked)>> \o rankInsert(Tail(ranked), c)

RECURSIVE rank(_)
rank(cands) ==
    IF cands = <<>> THEN <<>>
    ELSE rankInsert(rank(SubSeq(cands, 1, Len(cands) - 1)), cands[Len(cands)])

Ranker(cands, count) == slice0(rank(cands), count)

\* The recommendations of the response to the request req
tagBasedResponse(req) ==
    Ranker(CalibrationFilter(CandidateAggregator(req.user_tags), req.calibration_settings),
           req.max_recommendations)

\* The outcomes of the tag-based request req
TagOutcomes(req) ==
    {Rejected, HttpError, Json(NullBody), Json(ObjectWithout),
     Json(ObjectWith(<<>>)),
     Json(ObjectWith(tagBasedResponse(req)))}

\* The same with responses longer than the count the page asks for
LongTagOutcomes(req) ==
    TagOutcomes(req) \cup {Json(ObjectWith(tagList(MaxResp, Some(req.user_tags))))}

DiscoveryOutcomes ==
    {Rejected, HttpError, Json(NullBody), Json(ObjectWithout),
     Json(ObjectWith(<<>>)),
     Json(ObjectWith(discoveryList(2)))}

LongDiscoveryOutcomes == DiscoveryOutcomes \cup {Json(ObjectWith(discoveryList(MaxResp)))}

InputValues == {<<>>, <<"a">>, <<"B">>}

(***************************************************************************)
(* FavoritesContext                                                         *)
(***************************************************************************)
\* likedMovies holds the movie objects handleLikeToggle was called with
likedObject(movie) == [isNumber |-> FALSE, num |-> 0, movie |-> movie]

\* An updater that appends without looking for the id
handleLikeToggleAlwaysAdds(prev, movie) == Append(prev, likedObject(movie))

\* The updater handleLikeToggle(movie) passes to setLikedMovies
handleLikeToggle(prev, movie) ==
    LET exists == \E i \in 1..Len(prev) : prev[i].movie.id = movie.id
        others == {prev[i] : i \in {j \in 1..Len(prev) : prev[j].movie.id # movie.id}}
    IN IF exists THEN filterSeq(prev, others) ELSE Append(prev, likedObject(movie))

(***************************************************************************)
(* RecommendationsPage: the fetch effect and fetchRecommendations           *)
(***************************************************************************)
NoFetch == [pc |-> "idle", selectedTags |-> <<>>, calibrationSettings |-> DefaultCalibration,
            currentTagsHash |-> EmptyString, currentCalibrationHash |-> EmptyString]

NoDelivery == [endpoint |-> "none", outcome |-> Rejected]

LoadError == "Failed to load recommendations. Please try again."

\* The test with an empty list taken for a missing one
hasNonEmptyRecommendations(r) ==
    /\ ~r.threw /\ r.value.present /\ r.value.recommendations.defined
    /\ Len(r.value.recommendations.v) > 0

\* if (response && response.recommendations)
hasRecommendations(r) == ~r.threw /\ r.value.present /\ r.value.recommendations.defined

\* An outer catch that throws the error on
outerCatchRethrows ==
    [movies |-> getFallbackMovies, error |-> LoadError, rejected |-> TRUE, by |-> "static"]

\* The outer catch of fetchRecommendations: records the error and shows the
\* static list; nothing is thrown on
outerCatch ==
    [movies |-> getFallbackMovies, error |-> LoadError, rejected |-> FALSE, by |-> "static"]

\* The inner try, given what the tag-based request gave: the movies to show, or
\* the throw that its catch (tagError) turns into a discovery request
tagBranch(r) ==
    IF hasRecommendations(r)
    THEN [fallback |-> FALSE, movies |-> mapTag(r.value.recommendations.v)]
    ELSE [fallback |-> TRUE, movies |-> <<>>]

\* The catch (tagError) block, given what the discovery request gave
discoveryBranch(r) ==
    IF hasRecommendations(r)
    THEN [movies |-> mapDiscovery(r.value.recommendations.v), error |-> null,
          rejected |-> FALSE, by |-> "discovery"]
    ELSE outerCatch

\* No tags selected: the static list, without a request
noTagsBranch ==
    [movies |-> getFallbackMovies, error |-> null, rejected |-> FALSE, by |-> "static"]

\* The tail of fetchRecommendations: setMovies, the cache tracking, the status
\* setter and the finally block. call is the closure the fetch runs in.
finish(call, result) ==
    /\ movies' = IF result.rejected THEN movies ELSE result.movies
    /\ loadedBy' = IF result.rejected THEN loadedBy ELSE result.by
    /\ hasLoadedRecommendations' = TRUE
    /\ lastTagsHash' = call.currentTagsHash
    /\ lastCalibrationHash' = call.currentCalibrationHash
    /\ recommendationError' = result.error
    /\ unhandledRejection' = (unhandledRejection \/ result.rejected)
    /\ isFetching' = FALSE
    /\ fetchCall' = NoFetch
    /\ net' = NoRequest
    /\ renderDue' = TRUE
    /\ effectDue' = TRUE

\* needsFetch of the fetch effect
needsFetch(currentTagsHash, currentCalibrationHash) ==
    \/ ~hasLoadedRecommendations
    \/ currentTagsHash # lastTagsHash
    \/ currentCalibrationHash # lastCalibrationHash

\* The guard without the isFetching test
skipFetchNoGuard(needed) == ~needed

\* The guard of the effect and of fetchRecommendations
skipFetch(needed) == ~needed \/ isFetching

\* One render of the page with the effects that follow it: the render sorts
\* selectedTags in place; the movies effect hides the matrix loading screen; the
\* fetch effect runs when one of its dependencies changed.
Render ==
    /\ renderDue
    /\ LET sorted == sort(selectedTags)
           currentTagsHash == stringify(sorted)
           currentCalibrationHash == stringify(calibrationSettings)
           call == [pc |-> "awaitTag", selectedTags |-> sorted,
                    calibrationSettings |-> calibrationSettings,
                    currentTagsHash |-> currentTagsHash,
                    currentCalibrationHash |-> currentCalibrationHash]
       IN /\ selectedTags' = sorted
          /\ showMatrixLoading' = IF Len(movies) > 0 THEN FALSE ELSE showMatrixLoading
          /\ IF ~effectDue \/ skipFetch(needsFetch(currentTagsHash, currentCalibrationHash))
             THEN /\ renderDue' = FALSE
                  /\ effectDue' = FALSE
                  /\ UNCHANGED <<movies, hasLoadedRecommendations, lastTagsHash,
                                 lastCalibrationHash, isFetching, fetchCall, net,
                                 recommendationError, unhandledRejection, sent, loadedBy>>
             ELSE IF Len(sorted) > 0
             THEN /\ isFetching' = TRUE
                  /\ fetchCall' = call
                  /\ net' = getTagBasedRecommendations(sorted, calibrationSettings, RequestCount)
                  /\ sent' = Append(sent, net')
                  /\ renderDue' = FALSE
                  /\ effectDue' = FALSE
                  /\ UNCHANGED <<movies, hasLoadedRecommendations, lastTagsHash,
                                 lastCalibrationHash, recommendationError, unhandledRejection,
                                 loadedBy>>
             ELSE /\ finish(call, noTagsBranch)
                  /\ UNCHANGED sent
    /\ delivered' = NoDelivery
    /\ UNCHANGED <<calibrationSettings, apiFilters, likedMovies, inputValue, opsLeft, compVars>>

\* The tag-based request is answered: the rest of the inner try, and on a throw
\* the start of the catch (tagError) block up to its await
TagResponse(outcome) ==
    /\ fetchCall.pc = "awaitTag"
    /\ net.state = "pending"
    /\ delivered' = [endpoint |-> net.endpoint, outcome |-> outcome]
    /\ LET branch == tagBranch(request(outcome))
       IN IF branch.fallback
          THEN /\ fetchCall' = [fetchCall EXCEPT !.pc = "awaitDiscovery"]
               /\ net' = getDiscoveryRecommendations(RequestCount)
               /\ UNCHANGED <<movies, hasLoadedRecommendations, lastTagsHash,
                              lastCalibrationHash, recommendationError, unhandledRejection,
                              isFetching, renderDue, effectDue, loadedBy>>
          ELSE finish(fetchCall, [movies |-> branch.movies, error |-> null,
                                  rejected |-> FALSE, by |-> "tag-based"])
    /\ UNCHANGED <<selectedTags, calibrationSettings, apiFilters, likedMovies,
                   inputValue, showMatrixLoading, sent, opsLeft, compVars>>

\* The discovery request is answered: the rest of the catch (tagError) block, or
\* the outer catch
DiscoveryResponse(outcome) ==
    /\ fetchCall.pc = "awaitDiscovery"
    /\ net.state = "pending"
    /\ delivered' = [endpoint |-> net.endpoint, outcome |-> outcome]
    /\ finish(fetchCall, discoveryBranch(request(outcome)))
    /\ UNCHANGED <<selectedTags, calibrationSettings, apiFilters, likedMovies,
                   inputValue, showMatrixLoading, sent, opsLeft, compVars>>

\* The backend never answers the request: fetch() is called without a timeout or an
\* abort signal, so its promise stays pending
BackendSilent ==
    /\ net.state = "pending"
    /\ net' = [net EXCEPT !.state = "silent"]
    /\ delivered' = NoDelivery
    /\ UNCHANGED <<prefVars, apiFilters, likedMovies, movies, inputValue,
                   showMatrixLoading, hasLoadedRecommendations, lastTagsHash,
                   lastCalibrationHash, isFetching, fetchCall, renderDue, effectDue,
                   unhandledRejection, sent, loadedBy, opsLeft, compVars>>

\* VCRConsole: onChange of the search input
setInputValue(value) ==
    /\ inputValue' = value
    /\ renderDue' = TRUE
    /\ delivered' = NoDelivery
    /\ UNCHANGED <<prefVars, apiFilters, likedMovies, movies, showMatrixLoading,
                   hasLoadedRecommendations, lastTagsHash, lastCalibrationHash, isFetching,
                   fetchCall, net, effectDue, unhandledRejection, sent, loadedBy, opsLeft, compVars>>

\* MatrixLoading: onFinish, when its last step's timer fires
MatrixFinish ==
    /\ showMatrixLoading
    /\ showMatrixLoading' = FALSE
    /\ renderDue' = TRUE
    /\ delivered' = NoDelivery
    /\ UNCHANGED <<prefVars, apiFilters, likedMovies, movies, inputValue,
                   hasLoadedRecommendations, lastTagsHash, lastCalibrationHash, isFetching,
                   fetchCall, net, effectDue, unhandledRejection, sent, loadedBy, opsLeft, compVars>>

\* CRTScreen: the like button of the selected movie
LikeClick(movie) ==
    /\ ~showMatrixLoading
    /\ likedMovies' = handleLikeToggle(likedMovies, movie)
    /\ renderDue' = TRUE
    /\ delivered' = NoDelivery
    /\ UNCHANGED <<prefVars, apiFilters, movies, inputValue, showMatrixLoading,
                   hasLoadedRecommendations, lastTagsHash, lastCalibrationHash, isFetching,
                   fetchCall, net, effectDue, unhandledRejection, sent, loadedBy, opsLeft, compVars>>

\* Tags and calibration change while the page is mounted
PageAddTag(tag) ==
    /\ addTag(tag)
    /\ delivered' = NoDelivery
    /\ UNCHANGED <<apiFilters, likedMovies, movies, inputValue, showMatrixLoading,
                   hasLoadedRecommendations, lastTagsHash, lastCalibrationHash, isFetching,
                   fetchCall, net, unhandledRejection, loadedBy, opsLeft, compVars>>

PageRemoveTag(tag) ==
    /\ removeTag(tag)
    /\ delivered' = NoDelivery
    /\ UNCHANGED <<apiFilters, likedMovies, movies, inputValue, showMatrixLoading,
                   hasLoadedRecommendations, lastTagsHash, lastCalibrationHash, isFetching,
                   fetchCall, net, unhandledRejection, loadedBy, opsLeft, compVars>>

PageUpdateSetting(key, value) ==
    /\ updateSetting(key, value)
    /\ delivered' = NoDelivery
    /\ UNCHANGED <<apiFilters, likedMovies, movies, inputValue, showMatrixLoading,
                   hasLoadedRecommendations, lastTagsHash, lastCalibrationHash, isFetching,
                   fetchCall, net, unhandledRejection, loadedBy, opsLeft, compVars>>

PageSettings == {[key |-> "era", value |-> 9], [key |-> "era", value |-> 5]}

(***************************************************************************)
(* Knob: one knob per calibration setting, onChange bound to updateSetting  *)
(***************************************************************************)
\* Math.min, Math.max
min(a, b) == IF a < b THEN a ELSE b
max(a, b) == IF a > b THEN a ELSE b

\* useTransform(y, [-100, 100], [-150, 150]) clamps its input; the rotation is
\* kept doubled so that it stays an integer (rotation2 is 2 * rotation)
rotation2(y) == 3 * min(100, max(-100, y))

\* Math.round(x) for x = num / den with den > 0: floor(x + 1/2)
roundDiv(num, den) == (2 * num + den) \div (2 * den)

\* useTransform(rotation, v => Math.round((v + 150) / 30))
transformedValue(y) == roundDiv(rotation2(y) + 300, 60)

\* Math.sign
sign(x) == IF x > 0 THEN 1 ELSE IF x < 0 THEN -1 ELSE 0

\* The listener's test with 0 let through
inKnobRangeFromZero(v) == v >= 0 /\ v <= 10

\* if (v >= 1 && v <= 10) onChange(v)
inKnobRange(v) == v >= 1 /\ v <= 10

\* Log of the step: whether it called onChange, with which value, from which
\* handler, and the value prop the knob had
NotCalled == [called |-> FALSE, v |-> 0, by |-> "none", value |-> 0]
Called(v, by, value) == [called |-> TRUE, v |-> v, by |-> by, value |-> value]

knobInit ==
    [y |-> [k \in SettingKeys |-> 0],
     transformedValue |-> [k \in SettingKeys |-> transformedValue(0)],
     onChange |-> NotCalled]

\* handleDrag of the knob of setting key, and the transformedValue listener
\* that runs when the rounded value changed
handleDrag(key, deltaY) ==
    LET newY == knob.y[key] + deltaY
        v == transformedValue(newY)
        emit == v # knob.transformedValue[key] /\ inKnobRange(v)
    IN /\ knob' = [y |-> [knob.y EXCEPT ![key] = newY],
                   transformedValue |-> [knob.transformedValue EXCEPT ![key] = v],
                   onChange |-> IF emit THEN Called(v, "drag", calibrationSettings[key])
                               ELSE NotCalled]
       /\ IF emit THEN updateSetting(key, v)
          ELSE UNCHANGED <<prefVars, renderDue, effectDue, sent>>

\* handleWheel of the knob of setting key; value is the knob's prop
handleWheel(key, deltaY) ==
    LET delta == sign(deltaY)
        value == calibrationSettings[key]
        newVal == min(10, max(1, value - delta))
    IN /\ knob' = [knob EXCEPT !.onChange = Called(newVal, "wheel", value)]
       /\ updateSetting(key, newVal)


(***************************************************************************)
(* KeywordService.searchKeywords and the search box of TagSelectionPageNew  *)
(***************************************************************************)
\* String.prototype.trim on strings of letters and blanks
RECURSIVE trimStart(_)
trimStart(q) == IF q # <<>> /\ Head(q) = " " THEN trimStart(Tail(q)) ELSE q

RECURSIVE trimEnd(_)
trimEnd(q) == IF q # <<>> /\ q[Len(q)] = " " THEN trimEnd(SubSeq(q, 1, Len(q) - 1)) ELSE q

trim(q) == trimEnd(trimStart(q))

\* !query || query.trim() === ''
isBlank(query) == query = <<>> \/ trim(query) = <<>>

\* What fetch() of /keywords/search yields: a rejected promise, a non-OK status,
\* an OK response whose text is not JSON, or an OK response with a parsed body
\* (null, an object without results, an object with results)
SearchFetch(kind, present, results) ==
    [kind |-> kind, body |-> [present |-> present, results |-> results]]

SearchOutcomes ==
    {SearchFetch("reject", FALSE, NoList), SearchFetch("status", FALSE, NoList),
     SearchFetch("badjson", FALSE, NoList), SearchFetch("json", FALSE, NoList),
     SearchFetch("json", TRUE, NoList), SearchFetch("json", TRUE, Some(<<>>)),
     SearchFetch("json", TRUE, Some(<<1, 3>>))}

searchFailed(outcome) == outcome.kind # "json" \/ ~outcome.body.present

Returned(v) == [raised |-> FALSE, v |-> v]
Raised == [raised |-> TRUE, v |-> <<>>]

\* searchKeywords with a catch that throws the error on
searchKeywordsRethrows(outcome) ==
    IF outcome.kind # "json" THEN Raised
    ELSE IF ~outcome.body.present THEN Raised
    ELSE IF outcome.body.results.defined THEN Returned(outcome.body.results.v)
    ELSE Returned(<<>>)

\* searchKeywords after its await of fetch: the rest of the try block (the
\* status test, response.json(), data.results || []) and the catch
searchKeywords(outcome) ==
    IF outcome.kind # "json" THEN Returned(<<>>)
    ELSE IF ~outcome.body.present THEN Returned(<<>>)
    ELSE IF outcome.body.results.defined THEN Returned(outcome.body.results.v)
    ELSE Returned(<<>>)

NoReturn == [called |-> FALSE, query |-> <<>>, fetched |-> FALSE,
             outcome |-> SearchFetch("reject", FALSE, NoList), result |-> Returned(<<>>)]

searchInit ==
    [searchQuery |-> <<>>, searchResults |-> <<>>, showSearchResults |-> FALSE,
     isSearching |-> FALSE, calls |-> <<>>, returned |-> NoReturn]

Queries == {<<>>, <<" ">>, <<"a">>, <<" ", "a", " ">>}

\* handleSearchInputChange
handleSearchInputChange(value) ==
    /\ search' = [search EXCEPT !.searchQuery = value,
                                !.showSearchResults = IF trim(value) = <<>> THEN FALSE ELSE @,
                                !.returned = NoReturn]
    /\ UNCHANGED <<clientVars, knob, importPage, api, currentIndex>>

\* handleSearch up to its await (the Enter key or the search button)
handleSearch ==
    /\ Len(search.calls) < MaxSearches
    /\ IF trim(search.searchQuery) = <<>>
       THEN search' = [search EXCEPT !.searchResults = <<>>, !.showSearchResults = FALSE,
                                     !.returned = NoReturn]
       ELSE IF isBlank(search.searchQuery)
       THEN search' = [search EXCEPT !.searchResults = <<>>, !.showSearchResults = TRUE,
                                     !.isSearching = FALSE,
                                     !.returned = [NoReturn EXCEPT !.called = TRUE,
                                                                   !.query = search.searchQuery]]
       ELSE search' = [search EXCEPT !.isSearching = TRUE,
                                     !.calls = Append(@, [caller |-> "handleSearch",
                                                          query |-> search.searchQuery]),
                                     !.returned = NoReturn]
    /\ UNCHANGED <<clientVars, knob, importPage, api, currentIndex>>

\* searchKeywords(query) called by another caller, up to its await
callSearchKeywords(query) ==
    /\ Len(search.calls) < MaxSearches
    /\ IF isBlank(query)
       THEN search' = [search EXCEPT !.returned = [NoReturn EXCEPT !.called = TRUE,
                                                                   !.query = query]]
       ELSE search' = [search EXCEPT !.calls = Append(@, [caller |-> "other", query |-> query]),
                                     !.returned = NoReturn]
    /\ UNCHANGED <<clientVars, knob, importPage, api, currentIndex>>

\* The fetch of the i-th call in flight settles: the rest of searchKeywords, and
\* the rest of handleSearch when it is the caller
searchAnswered(i, outcome) ==
    /\ LET call == search.calls[i]
           result == searchKeywords(outcome)
           rest == [k \in 1..(Len(search.calls) - 1) |->
                       IF k < i THEN search.calls[k] ELSE search.calls[k + 1]]
           log == [called |-> TRUE, query |-> call.query, fetched |-> TRUE,
                   outcome |-> outcome, result |-> result]
       IN search' =
            IF call.caller # "handleSearch"
            THEN [search EXCEPT !.calls = rest, !.returned = log]
            ELSE IF result.raised
            THEN [search EXCEPT !.calls = rest, !.returned = log,
                                !.searchResults = <<>>, !.isSearching = FALSE]
            ELSE [search EXCEPT !.calls = rest, !.returned = log,
                                !.searchResults = result.v, !.showSearchResults = TRUE,
                                !.isSearching = FALSE]
    /\ UNCHANGED <<clientVars, knob, importPage, api, currentIndex>>

(***************************************************************************)
(* ImportPage: upload, and the status polls of setInterval                  *)
(***************************************************************************)
importInit ==
    [selectedFile |-> FALSE, isProcessing |-> FALSE, processingStatus |-> null,
     sessionId |-> 0, showNextButton |-> FALSE,
     uploads |-> 0,          \* fetches of /process-letterboxd in flight
     sessions |-> 0,         \* session ids the backend has handed out
     files |-> 0,            \* ZIP files chosen so far
     intervals |-> {},       \* sessions whose setInterval timer is active
     polls |-> <<>>,         \* fetches of /processing-status/{sessionId} in flight
     completedSeen |-> FALSE, \* log: a poll has reported 'completed'
     reported |-> "none"     \* log: the terminal status a poll reported since the last upload
    ]

\* The file input is rendered
fileInputShown == ~importPage.isProcessing /\ ~importPage.showNextButton

\* handleFileChange, with uploadAndProcessFile up to its await of fetch
handleFileChange(isZipFile) ==
    /\ fileInputShown
    /\ importPage.files < MaxUploads
    /\ importPage' =
         IF isZipFile
         THEN [importPage EXCEPT !.selectedFile = TRUE, !.isProcessing = TRUE,
                                 !.processingStatus = "uploading",
                                 !.uploads = @ + 1, !.files = @ + 1,
                                 !.reported = "none"]
         ELSE importPage
    /\ UNCHANGED <<clientVars, knob, search, api, currentIndex>>

\* The upload is answered: the rest of uploadAndProcessFile; pollProcessingStatus
\* starts the interval timer of the new session
uploadAnswered(ok) ==
    /\ importPage.uploads > 0
    /\ importPage' =
         IF ok
         THEN [importPage EXCEPT !.uploads = @ - 1, !.sessions = @ + 1,
                                 !.sessionId = importPage.sessions + 1,
                                 !.intervals = @ \cup {importPage.sessions + 1}]
         ELSE [importPage EXCEPT !.uploads = @ - 1, !.processingStatus = "error",
                                 !.isProcessing = FALSE]
    /\ UNCHANGED <<clientVars, knob, search, api, currentIndex>>

\* The interval timer of session sid fires: the callback up to its await of fetch
pollTick(sid) ==
    /\ sid \in importPage.intervals
    /\ Len(importPage.polls) < MaxPolls
    /\ importPage' = [importPage EXCEPT !.polls = Append(@, sid)]
    /\ UNCHANGED <<clientVars, knob, search, api, currentIndex>>

\* The i-th poll in flight is answered: the rest of the interval callback.
\* "failed" is a rejected fetch or a non-OK status (the catch block).
pollAnswered(i, outcome) ==
    /\ LET sid == importPage.polls[i]
           rest == [k \in 1..(Len(importPage.polls) - 1) |->
                       IF k < i THEN importPage.polls[k] ELSE importPage.polls[k + 1]]
       IN importPage' =
            CASE outcome = "completed" ->
                   [importPage EXCEPT !.polls = rest, !.processingStatus = "completed",
                                      !.intervals = @ \ {sid}, !.isProcessing = FALSE,
                                      !.showNextButton = TRUE, !.completedSeen = TRUE,
                                      !.reported = "completed"]
              [] outcome = "error" ->
                   [importPage EXCEPT !.polls = rest, !.processingStatus = "error",
                                      !.intervals = @ \ {sid}, !.isProcessing = FALSE,
                                      !.reported = "error"]
              [] outcome = "failed" ->
                   [importPage EXCEPT !.polls = rest, !.intervals = @ \ {sid},
                                      !.isProcessing = FALSE, !.processingStatus = "error"]
              [] OTHER ->
                   [importPage EXCEPT !.polls = rest, !.processingStatus = outcome]
    /\ UNCHANGED <<clientVars, knob, search, api, currentIndex>>

(***************************************************************************)
(* ApiProvider, and ApiService.getRecommendations                           *)
(***************************************************************************)
ConnectError == "Failed to connect to API server"

\* An options object {count, filters} and the null of a defaulted parameter
Options(count, filters) == [isNull |-> FALSE, count |-> count, filters |-> filters]
NullOptions == [isNull |-> TRUE, count |-> 0, filters |-> NoFilters]
NullFilters == [isNull |-> TRUE, v |-> NoFilters]

\* ApiService.getRecommendations(userId, tagIds = null, filters = null, count = 20):
\* the body of the POST to /recommendations
serviceGetRecommendations(userId, tagIds, filters, count) ==
    [endpoint |-> "/recommendations", user_id |-> userId, tag_ids |-> tagIds,
     filters |-> filters, count |-> count]

apiInit ==
    [isConnected |-> FALSE, isLoading |-> TRUE, error |-> null,
     health |-> "mount",     \* checkApiConnection: mount, await, silent, done
     healthy |-> "unknown",  \* log: what the health check gave: unknown, ok, failed
     calls |-> <<>>,         \* /recommendations requests in flight, with their caller
     request |-> [endpoint |-> "none", user_id |-> 0, tag_ids |-> NullOptions,
                 filters |-> NullFilters, count |-> 0],
                             \* log: the /recommendations request sent last
     options |-> NullOptions, \* log: the options of that call
     route |-> "/",          \* Router: the location
     lines |-> 0,            \* LoadingPage (shown while isLoading): lines.length
     stepTimer |-> TRUE,     \* LoadingPage: the timer of its effect is pending
     navigateTimer |-> FALSE \* LoadingPage: the timer set in the else branch is pending
    ]

\* The mount effect: checkApiConnection up to its await of healthCheck()
checkApiConnection ==
    /\ api.health = "mount"
    /\ api' = [api EXCEPT !.isLoading = TRUE, !.error = null, !.health = "await"]
    /\ UNCHANGED <<clientVars, knob, search, importPage, currentIndex>>

\* healthCheck() settles: the rest of the try, or the catch, and the finally.
\* AppContent renders without the LoadingPage, whose cleanup clears the timer of
\* its effect; when connected the routes render and "/" redirects to /auth.
healthAnswered(ok) ==
    /\ api.health = "await"
    /\ api' = IF ok
              THEN [api EXCEPT !.isConnected = TRUE, !.isLoading = FALSE,
                               !.health = "done", !.healthy = "ok",
                               !.stepTimer = FALSE,
                               !.route = IF @ = "/" THEN "/auth" ELSE @]
              ELSE [api EXCEPT !.isConnected = FALSE, !.error = ConnectError,
                               !.isLoading = FALSE, !.health = "done",
                               !.healthy = "failed", !.stepTimer = FALSE]
    /\ UNCHANGED <<clientVars, knob, search, importPage, currentIndex>>

\* The backend never answers /health: fetch() has no timeout
healthSilent ==
    /\ api.health = "await"
    /\ api' = [api EXCEPT !.health = "silent"]
    /\ UNCHANGED <<clientVars, knob, search, importPage, currentIndex>>

\* apiService.getRecommendations(userId, options), as the connection guide calls
\* it: options is bound to tagIds, and filters and count keep their defaults
apiServiceGetRecommendations(userId, options) ==
    /\ Len(api.calls) < MaxApiCalls
    /\ api' = [api EXCEPT
                 !.request = serviceGetRecommendations(userId, options, NullFilters, 20),
                 !.options = options,
                 !.calls = Append(@, "apiService")]
    /\ UNCHANGED <<clientVars, knob, search, importPage, currentIndex>>

\* ApiProvider.getRecommendations(userId, options) up to its await
contextGetRecommendations(userId, options) ==
    /\ Len(api.calls) < MaxApiCalls
    /\ api' = [api EXCEPT
                 !.error = null,
                 !.request = serviceGetRecommendations(userId, options, NullFilters, 20),
                 !.options = options,
                 !.calls = Append(@, "ApiContext")]
    /\ UNCHANGED <<clientVars, knob, search, importPage, currentIndex>>

\* The oldest /recommendations request settles; on a failure the context action
\* records err.message and throws the error on
recommendationsAnswered(ok, message) ==
    /\ api.calls # <<>>
    /\ api' = IF ~ok /\ Head(api.calls) = "ApiContext"
              THEN [api EXCEPT !.calls = Tail(@), !.error = message]
              ELSE [api EXCEPT !.calls = Tail(@)]
    /\ UNCHANGED <<clientVars, knob, search, importPage, currentIndex>>

\* LoadingPage: the timer of the effect fires while the page is mounted: the
\* next line is added and the effect sets the timer again, or, with every line
\* shown, the else branch sets the timer that navigates
loadingStepTimer ==
    /\ api.isLoading
    /\ api.stepTimer
    /\ api' = IF api.lines < NLoadingSteps
              THEN [api EXCEPT !.lines = @ + 1]
              ELSE [api EXCEPT !.stepTimer = FALSE, !.navigateTimer = TRUE]
    /\ UNCHANGED <<clientVars, knob, search, importPage, currentIndex>>

\* LoadingPage: the timer set in the else branch fires; no cleanup clears it
loadingNavigate ==
    /\ api.navigateTimer
    /\ api' = [api EXCEPT !.navigateTimer = FALSE, !.route = "/tags"]
    /\ UNCHANGED <<clientVars, knob, search, importPage, currentIndex>>

OptionValues ==
    {Options(c, [isNull |-> FALSE, v |-> [NoFilters EXCEPT !.min_year = Some(y)]]) :
        c \in {10, 20}, y \in {1990, 2000}}

compInit ==
    /\ knob = knobInit
    /\ search = searchInit
    /\ importPage = importInit
    /\ api = apiInit
    /\ currentIndex = 0

Init ==
    /\ selectedTags = <<>>
    /\ calibrationSettings = DefaultCalibration
    /\ recommendationError = null
    /\ apiFilters = NoFilters
    /\ likedMovies = <<>>
    /\ movies = <<>>
    /\ inputValue = <<>>
    /\ showMatrixLoading = FALSE
    /\ hasLoadedRecommendations = FALSE
    /\ lastTagsHash = EmptyString
    /\ lastCalibrationHash = EmptyString
    /\ isFetching = FALSE
    /\ fetchCall = NoFetch
    /\ net = NoRequest
    /\ renderDue = TRUE
    /\ effectDue = TRUE
    /\ unhandledRejection = FALSE
    /\ sent = <<>>
    /\ delivered = NoDelivery
    /\ loadedBy = "none"
    /\ opsLeft = 0
    /\ compInit

Next ==
    \/ Render
    \/ \E outcome \in TagOutcomes(net) : TagResponse(outcome)
    \/ \E outcome \in DiscoveryOutcomes : DiscoveryResponse(outcome)
    \/ BackendSilent
    \/ \E tag \in PageTags : PageAddTag(tag)
    \/ \E tag \in PageTags : PageRemoveTag(tag)
    \/ \E s \in PageSettings : PageUpdateSetting(s.key, s.value)

Spec == Init /\ [][Next]_vars

(***************************************************************************)
(* The shelf: the page with a fixed selection, the search input and likes   *)
(***************************************************************************)
ShelfInit ==
    /\ selectedTags \in {[i \in 1..n |-> i] : n \in 0..NPageTags}
    /\ calibrationSettings = DefaultCalibration
    /\ recommendationError = null
    /\ apiFilters = NoFilters
    /\ likedMovies = <<>>
    /\ movies = <<>>
    /\ inputValue = <<>>
    /\ showMatrixLoading \in BOOLEAN
    /\ hasLoadedRecommendations = FALSE
    /\ lastTagsHash = EmptyString
    /\ lastCalibrationHash = EmptyString
    /\ isFetching = FALSE
    /\ fetchCall = NoFetch
    /\ net = NoRequest
    /\ renderDue = TRUE
    /\ effectDue = TRUE
    /\ unhandledRejection = FALSE
    /\ sent = <<>>
    /\ delivered = NoDelivery
    /\ loadedBy = "none"
    /\ opsLeft = 0
    /\ compInit

ShelfNext ==
    \/ Render
    \/ \E outcome \in LongTagOutcomes(net) : TagResponse(outcome)
    \/ \E outcome \in LongDiscoveryOutcomes : DiscoveryResponse(outcome)
    \/ \E value \in InputValues : setInputValue(value)
    \/ MatrixFinish
    \/ \E i \in 1..Len(movies) : movies[i].id <= MaxLikeId /\ LikeClick(movies[i])

ShelfSpec == ShelfInit /\ [][ShelfNext]_vars

(***************************************************************************)
(* The tag-selection page: runs of clicks from a given selection            *)
(***************************************************************************)
pageIdle == <<apiFilters, likedMovies, movies, inputValue, showMatrixLoading,
              hasLoadedRecommendations, lastTagsHash, lastCalibrationHash, isFetching,
              fetchCall, net, unhandledRejection, delivered, loadedBy>>

TagInit ==
    /\ selectedTags \in {[i \in 1..n |-> i] : n \in {0} \cup ((maxTags - 2)..maxTags)}
    /\ calibrationSettings = DefaultCalibration
    /\ recommendationError = null
    /\ apiFilters = NoFilters
    /\ likedMovies = <<>>
    /\ movies = <<>>
    /\ inputValue = <<>>
    /\ showMatrixLoading = FALSE
    /\ hasLoadedRecommendations = FALSE
    /\ lastTagsHash = EmptyString
    /\ lastCalibrationHash = EmptyString
    /\ isFetching = FALSE
    /\ fetchCall = NoFetch
    /\ net = NoRequest
    /\ renderDue = TRUE
    /\ effectDue = TRUE
    /\ unhandledRejection = FALSE
    /\ sent = <<>>
    /\ delivered = NoDelivery
    /\ loadedBy = "none"
    /\ opsLeft = MaxOps
    /\ compInit

TagOp(op) ==
    /\ opsLeft > 0
    /\ opsLeft' = opsLeft - 1
    /\ op
    /\ UNCHANGED <<pageIdle, compVars>>

TagNext ==
    \/ \E tag \in Tags : TagOp(addTag(tag))
    \/ \E tag \in Tags : TagOp(removeTag(tag))
    \/ \E tag \in Tags : TagOp(handleTagClick(tag))
    \/ \E tag \in Tags : TagOp(handleSearchResultClick(tag))

TagSpec == TagInit /\ [][TagNext]_vars

(***************************************************************************)
(* getApiFilters on every calibration the knobs can set                     *)
(***************************************************************************)
CalibInit ==
    /\ selectedTags = <<>>
    /\ calibrationSettings \in [SettingKeys -> SettingValues]
    /\ recommendationError = null
    /\ apiFilters = NoFilters
    /\ likedMovies = <<>>
    /\ movies = <<>>
    /\ inputValue = <<>>
    /\ showMatrixLoading = FALSE
    /\ hasLoadedRecommendations = FALSE
    /\ lastTagsHash = EmptyString
    /\ lastCalibrationHash = EmptyString
    /\ isFetching = FALSE
    /\ fetchCall = NoFetch
    /\ net = NoRequest
    /\ renderDue = TRUE
    /\ effectDue = TRUE
    /\ unhandledRejection = FALSE
    /\ sent = <<>>
    /\ delivered = NoDelivery
    /\ loadedBy = "none"
    /\ opsLeft = 0
    /\ compInit

CallGetApiFilters ==
    /\ apiFilters' = getApiFilters(calibrationSettings)
    /\ UNCHANGED <<prefVars, likedMovies, pageVars, opsLeft, compVars>>

CalibNext == CallGetApiFilters

CalibSpec == CalibInit /\ [][CalibNext]_vars

(***************************************************************************)
(* The knobs: runs of drags and wheel steps from every setting value        *)
(***************************************************************************)
KnobInit ==
    /\ selectedTags = <<>>
    /\ calibrationSettings \in {[k \in SettingKeys |-> v] : v \in SettingValues}
    /\ recommendationError = null
    /\ apiFilters = NoFilters
    /\ likedMovies = <<>>
    /\ movies = <<>>
    /\ inputValue = <<>>
    /\ showMatrixLoading = FALSE
    /\ hasLoadedRecommendations = FALSE
    /\ lastTagsHash = EmptyString
    /\ lastCalibrationHash = EmptyString
    /\ isFetching = FALSE
    /\ fetchCall = NoFetch
    /\ net = NoRequest
    /\ renderDue = TRUE
    /\ effectDue = TRUE
    /\ unhandledRejection = FALSE
    /\ sent = <<>>
    /\ delivered = NoDelivery
    /\ loadedBy = "none"
    /\ opsLeft = MaxOps
    /\ compInit

KnobOp(op) ==
    /\ opsLeft > 0
    /\ opsLeft' = opsLeft - 1
    /\ op
    /\ UNCHANGED <<pageIdle, search, importPage, api, currentIndex>>

KnobNext ==
    \/ \E key \in SettingKeys, deltaY \in {-100, -30, 30, 100} : KnobOp(handleDrag(key, deltaY))
    \/ \E key \in SettingKeys, deltaY \in {-120, 0, 120} : KnobOp(handleWheel(key, deltaY))

KnobSpec == KnobInit /\ [][KnobNext]_vars

(***************************************************************************)
(* The search box of the tag-selection page                                 *)
(***************************************************************************)
\* handleSearchResultClick with its two setters of the search box
SearchResultClick(i) ==
    /\ search.showSearchResults
    /\ handleSearchResultClick(search.searchResults[i])
    /\ search' = [search EXCEPT !.searchQuery = <<>>, !.showSearchResults = FALSE,
                                !.returned = NoReturn]
    /\ UNCHANGED <<pageIdle, opsLeft, knob, importPage, api, currentIndex>>

SearchNext ==
    \/ \E value \in Queries : handleSearchInputChange(value)
    \/ handleSearch
    \/ \E query \in Queries : callSearchKeywords(query)
    \/ \E i \in 1..Len(search.calls), outcome \in SearchOutcomes : searchAnswered(i, outcome)
    \/ \E i \in 1..Len(search.searchResults) : SearchResultClick(i)

SearchSpec == Init /\ [][SearchNext]_vars

(***************************************************************************)
(* The import page                                                          *)
(***************************************************************************)
ImportNext ==
    \/ \E isZipFile \in BOOLEAN : handleFileChange(isZipFile)
    \/ \E ok \in BOOLEAN : uploadAnswered(ok)
    \/ \E sid \in importPage.intervals : pollTick(sid)
    \/ \E i \in 1..Len(importPage.polls), outcome \in {"processing", "completed", "error", "failed"} :
          pollAnswered(i, outcome)

ImportSpec == Init /\ [][ImportNext]_vars

(***************************************************************************)
(* ApiProvider from its mount, with callers of getRecommendations           *)
(***************************************************************************)
ApiNext ==
    \/ checkApiConnection
    \/ \E ok \in BOOLEAN : healthAnswered(ok)
    \/ healthSilent
    \/ \E userId \in {1, 2}, options \in OptionValues :
          apiServiceGetRecommendations(userId, options)
    \/ \E userId \in {1, 2}, options \in OptionValues :
          contextGetRecommendations(userId, options)
    \/ \E ok \in BOOLEAN, message \in {"Failed to fetch", "HTTP error! status: 500"} :
          recommendationsAnswered(ok, message)
    \/ loadingStepTimer
    \/ loadingNavigate

ApiSpec == Init /\ [][ApiNext]_vars

\* A mounted provider runs its mount effect, and a health check the backend is
\* going to answer is answered
ApiFairSpec ==
    /\ ApiSpec
    /\ WF_vars(checkApiConnection)
    /\ WF_vars(\E ok \in BOOLEAN : healthAnswered(ok))

(***************************************************************************)
(* FavoritesPage: pages of moviesPerPage favourites, and the unlike button  *)
(***************************************************************************)
nextFavorites ==
    /\ currentIndex + moviesPerPage < Len(likedMovies)
    /\ currentIndex' = currentIndex + moviesPerPage
    /\ UNCHANGED <<clientVars, knob, search, importPage, api>>

prevFavorites ==
    /\ currentIndex > 0
    /\ currentIndex' = currentIndex - moviesPerPage
    /\ UNCHANGED <<clientVars, knob, search, importPage, api>>

\* The heart button of the i-th favourite, one of
\* favorites.slice(currentIndex, currentIndex + moviesPerPage)
favoriteLikeToggle(i) ==
    /\ currentIndex < i /\ i <= currentIndex + moviesPerPage /\ i <= Len(likedMovies)
    /\ likedMovies' = handleLikeToggle(likedMovies, likedMovies[i].movie)
    /\ UNCHANGED <<prefVars, apiFilters, pageVars, opsLeft, compVars>>

FavInit ==
    /\ selectedTags = <<>>
    /\ calibrationSettings = DefaultCalibration
    /\ recommendationError = null
    /\ apiFilters = NoFilters
    /\ likedMovies \in {[i \in 1..n |-> likedObject(mapDiscovery(discoveryList(n))[i])] :
                            n \in 0..NFavorites}
    /\ movies = <<>>
    /\ inputValue = <<>>
    /\ showMatrixLoading = FALSE
    /\ hasLoadedRecommendations = FALSE
    /\ lastTagsHash = EmptyString
    /\ lastCalibrationHash = EmptyString
    /\ isFetching = FALSE
    /\ fetchCall = NoFetch
    /\ net = NoRequest
    /\ renderDue = TRUE
    /\ effectDue = TRUE
    /\ unhandledRejection = FALSE
    /\ sent = <<>>
    /\ delivered = NoDelivery
    /\ loadedBy = "none"
    /\ opsLeft = 0
    /\ compInit

FavNext ==
    \/ nextFavorites
    \/ prevFavorites
    \/ \E i \in 1..Len(likedMovies) : favoriteLikeToggle(i)

FavSpec == FavInit /\ [][FavNext]_vars

(***************************************************************************)
(* The page while a request is in flight: a bounded number of changes of    *)
(* tags and calibration, each made before the request is answered; after    *)
(* the last of them the pair stays fixed                                    *)
(***************************************************************************)
StaleInit ==
    /\ selectedTags \in {[i \in 1..n |-> i] : n \in 0..NPageTags}
    /\ calibrationSettings = DefaultCalibration
    /\ recommendationError = null
    /\ apiFilters = NoFilters
    /\ likedMovies = <<>>
    /\ movies = <<>>
    /\ inputValue = <<>>
    /\ showMatrixLoading = FALSE
    /\ hasLoadedRecommendations = FALSE
    /\ lastTagsHash = EmptyString
    /\ lastCalibrationHash = EmptyString
    /\ isFetching = FALSE
    /\ fetchCall = NoFetch
    /\ net = NoRequest
    /\ renderDue = TRUE
    /\ effectDue = TRUE
    /\ unhandledRejection = FALSE
    /\ sent = <<>>
    /\ delivered = NoDelivery
    /\ loadedBy = "none"
    /\ opsLeft = MaxOps
    /\ compInit

StaleOp(op) ==
    /\ fetchCall.pc # "idle"
    /\ opsLeft > 0
    /\ opsLeft' = opsLeft - 1
    /\ op
    /\ delivered' = NoDelivery
    /\ UNCHANGED <<apiFilters, likedMovies, movies, inputValue, showMatrixLoading,
                   hasLoadedRecommendations, lastTagsHash, lastCalibrationHash, isFetching,
                   fetchCall, net, unhandledRejection, loadedBy, compVars>>

StaleNext ==
    \/ Render
    \/ \E outcome \in TagOutcomes(net) : TagResponse(outcome)
    \/ \E outcome \in DiscoveryOutcomes : DiscoveryResponse(outcome)
    \/ BackendSilent
    \/ \E tag \in PageTags : StaleOp(addTag(tag))
    \/ \E tag \in PageTags : StaleOp(removeTag(tag))
    \/ \E s \in PageSettings : StaleOp(updateSetting(s.key, s.value))

StaleSpec == StaleInit /\ [][StaleNext]_vars

\* A due render runs, and a request the backend is going to answer is answered
\* (the conditions of FairSpec)
StaleFairSpec ==
    /\ StaleSpec
    /\ WF_vars(Render)
    /\ WF_vars(\E outcome \in {Rejected, HttpError} : TagResponse(outcome))
    /\ WF_vars(\E outcome \in {Rejected, HttpError} : DiscoveryResponse(outcome))

(***************************************************************************)
(* The page under fair scheduling: a due render runs, and a request the     *)
(* backend is going to answer is answered. Nothing makes the backend answer *)
(* (BackendSilent), and the code sets no timer on its requests.             *)
(***************************************************************************)
\* Every answer to a request is enabled exactly while the request is pending
\* and ends that, so weak fairness of two of the answers says what weak
\* fairness of all of them says: a request does not stay pending for ever.
FairSpec ==
    /\ Spec
    /\ WF_vars(Render)
    /\ WF_vars(\E outcome \in {Rejected, HttpError} : TagResponse(outcome))
    /\ WF_vars(\E outcome \in {Rejected, HttpError} : DiscoveryResponse(outcome))

(***************************************************************************)
(* Properties                                                               *)
(***************************************************************************)
TagEndpoint == "/recommendations/tag-based"
DiscoveryEndpoint == "/recommendations/discovery"

\* The step is the answer to the tag-based request / to the discovery request
TagAnswered == fetchCall.pc = "awaitTag" /\ fetchCall'.pc # "awaitTag"
DiscoveryAnswered == fetchCall.pc = "awaitDiscovery" /\ fetchCall'.pc # "awaitDiscovery"
AnswerFailed == ~hasRecommendations(request(delivered'.outcome))

\* C1: a tag-based request made with at least one tag selected that throws or
\* whose response has no recommendations is followed by a discovery request; a
\* discovery request that fails as well ends with the static curated list shown
\* and a recommendation error recorded; every fetch that ends leaves a list from
\* one of its branches in movies, and no fetchRecommendations() promise is
\* ever rejected.
C1_FallbackChain ==
    /\ [][TagAnswered /\ AnswerFailed =>
            /\ Len(fetchCall.selectedTags) > 0
            /\ fetchCall'.pc = "awaitDiscovery"
            /\ net' = getDiscoveryRecommendations(RequestCount)
            /\ isFetching']_vars
    /\ [][DiscoveryAnswered /\ AnswerFailed =>
            /\ movies' = getFallbackMovies
            /\ recommendationError' = LoadError
            /\ fetchCall'.pc = "idle"]_vars
    /\ [][(TagAnswered \/ DiscoveryAnswered) /\ fetchCall'.pc = "idle" =>
            /\ loadedBy' \in {"tag-based", "discovery", "static"}
            /\ hasLoadedRecommendations'
            /\ ~isFetching']_vars
    /\ [](~unhandledRejection)

C1_Witness ==
    /\ delivered.endpoint = DiscoveryEndpoint
    /\ ~hasRecommendations(request(delivered.outcome))
    /\ movies = getFallbackMovies
    /\ recommendationError = LoadError
    /\ lastTagsHash # tagsHash(<<>>)

\* C2: once the fetch effect has run for the current tags and calibration, a
\* request that is in flight is a request for the current tags and calibration
\* (the request for a changed set is issued without waiting for the stale one).
C2_NoBlockOnStale ==
    (~effectDue /\ fetchCall.pc # "idle") =>
        /\ fetchCall.currentTagsHash = tagsHash(selectedTags)
        /\ fetchCall.currentCalibrationHash = calibrationHash(calibrationSettings)

C4_FetchFinishes == isFetching ~> ~isFetching

\* The three buckets of a setting v with the thresholds t1 < t2
bucketMin(v, t1, t2) == IF v \in 1..3 THEN NoNumber ELSE IF v \in 4..7 THEN Some(t1) ELSE Some(t2)
bucketMax(v, t1, t2) == IF v \in 1..3 THEN Some(t1) ELSE IF v \in 4..7 THEN Some(t2) ELSE NoNumber

\* C5: for settings in 1..10 the filters getApiFilters returns are the three
\* buckets of era (1980, 2010), of runtime (90, 150) and of popularity (6.0,
\* 7.5), and they are the same whatever the familiarity is.
C5_ApiFilterBuckets ==
    apiFilters # NoFilters =>
        /\ apiFilters.min_year = bucketMin(calibrationSettings.era, 1980, 2010)
        /\ apiFilters.max_year = bucketMax(calibrationSettings.era, 1980, 2010)
        /\ apiFilters.min_runtime = bucketMin(calibrationSettings.runtime, 90, 150)
        /\ apiFilters.max_runtime = bucketMax(calibrationSettings.runtime, 90, 150)
        /\ apiFilters.min_rating = bucketMin(calibrationSettings.popularity, 60, 75)
        /\ apiFilters.max_rating = bucketMax(calibrationSettings.popularity, 60, 75)
        /\ \A f \in SettingValues :
              getApiFilters([calibrationSettings EXCEPT !.familiarity = f]) = apiFilters

C5_Witness ==
    /\ calibrationSettings.era = 3
    /\ calibrationSettings.runtime = 4
    /\ calibrationSettings.popularity = 8
    /\ apiFilters.max_year = Some(1980) /\ ~apiFilters.min_year.defined
    /\ apiFilters.min_runtime = Some(90) /\ apiFilters.max_runtime = Some(150)
    /\ apiFilters.min_rating = Some(75) /\ ~apiFilters.max_rating.defined

\* C6: from at most 25 selected tags, addTag, removeTag, tag clicks and
\* search-result clicks never leave more than 25 tags selected, and at 25 tags a
\* step that removes nothing leaves the selection as it is.
C6_AtMost25Tags ==
    /\ [](Len(selectedTags) <= maxTags)
    /\ [][Len(selectedTags) = maxTags /\ Len(selectedTags') >= maxTags =>
            selectedTags' = selectedTags]_vars

\* 25 tags, the last of them added by an operation, and a further operation done
C6_Witness ==
    /\ Len(selectedTags) = maxTags
    /\ selectedTags[maxTags] = NTags
    /\ opsLeft = 0

\* C7: a tag without an entry in the tag-to-keyword-id mapping is not part of
\* the tag-based request: what is sent are the tags getTagIds keeps.
C7_UnmappedTagsNotSent ==
    net.endpoint = TagEndpoint => Len(getTagIds(net.user_tags)) = Len(net.user_tags)

\* C8: a list loaded with zero tags selected comes from the discovery request
\* and each of its entries has an empty source_tags list.
C8_ZeroTagsDiscovery ==
    (hasLoadedRecommendations /\ lastTagsHash = tagsHash(<<>>)) =>
        /\ loadedBy = "discovery"
        /\ \A i \in 1..Len(movies) : movies[i].source_tags = Some(<<>>)

\* C9: a tag-based response with an empty recommendations list ends the fetch
\* with an empty list, no further request and no error; the discovery request
\* follows only a request that threw or a response without recommendations;
\* an error is recorded only together with the static list.
C9_EmptyIsAResult ==
    /\ [][TagAnswered /\ delivered'.outcome = Json(ObjectWith(<<>>)) =>
            /\ movies' = <<>>
            /\ filteredMovies(movies', likedMovies', inputValue') = <<>>
            /\ loadedBy' = "tag-based"
            /\ net' = NoRequest
            /\ fetchCall'.pc = "idle"
            /\ recommendationError' = null]_vars
    /\ [][TagAnswered /\ fetchCall'.pc = "awaitDiscovery" =>
            \/ request(delivered'.outcome).threw
            \/ ~request(delivered'.outcome).value.recommendations.defined]_vars
    /\ [](recommendationError = LoadError => loadedBy = "static")

C9_Witness ==
    /\ delivered.endpoint = TagEndpoint
    /\ delivered.outcome = Json(ObjectWith(<<>>))
    /\ hasLoadedRecommendations
    /\ movies = <<>>
    /\ recommendationError = null

\* C10: the shelf never shows more entries than the count the page requests,
\* whatever the length of the response and whatever the search text.
C10_AtMostRequestCount ==
    Len(filteredMovies(movies, likedMovies, inputValue)) <= RequestCount

\* a response longer than the count is loaded and the shelf is cut to the count
C10_Witness ==
    /\ Len(movies) > RequestCount
    /\ Len(filteredMovies(movies, likedMovies, inputValue)) = RequestCount

\* The entries on the shelf, whether or not the matrix loading screen covers it
shown == filteredMovies(movies, likedMovies, inputValue)

\* C11: when the list was loaded with at least one tag selected, every entry
\* shown has a non-empty source_tags list, whichever branch filled the list
\* (tag-based response, discovery fallback, static list).
C11_SourceTagsNonEmpty ==
    (hasLoadedRecommendations /\ lastTagsHash # tagsHash(<<>>)) =>
        \A i \in 1..Len(shown) :
            shown[i].source_tags.defined /\ Len(shown[i].source_tags.v) > 0

C13_EraFilter ==
    (hasLoadedRecommendations
     /\ lastCalibrationHash = calibrationHash(calibrationSettings)) =>
        \A i \in 1..Len(shown) :
            shown[i].year.known => inEra(shown[i].year.num, getApiFilters(calibrationSettings))

\* C14: no movie the user has liked is on the shelf.
C14_LikedNotShown ==
    \A i \in 1..Len(shown) :
        ~\E j \in 1..Len(likedMovies) : likedMovies[j].movie.id = shown[i].id

\* Position of a shown entry in movies
posInMovies(e) == CHOOSE k \in 1..Len(movies) : movies[k] = e

\* C15: the list set from a response has the entries of the response in the
\* order of the response, and the shelf shows entries of that list in the
\* order of the list.
C15_OrderKept ==
    /\ [][TagAnswered /\ ~AnswerFailed =>
            /\ Len(movies') = Len(delivered'.outcome.body.recommendations.v)
            /\ \A i \in 1..Len(movies') :
                  movies'[i].id = delivered'.outcome.body.recommendations.v[i].tmdb_id]_vars
    /\ [][DiscoveryAnswered /\ ~AnswerFailed =>
            /\ Len(movies') = Len(delivered'.outcome.body.recommendations.v)
            /\ \A i \in 1..Len(movies') :
                  movies'[i].id = delivered'.outcome.body.recommendations.v[i].id]_vars
    /\ [](\A i, j \in 1..Len(shown) : i < j => posInMovies(shown[i]) < posInMovies(shown[j]))

\* a ranked response whose order is not the order of the ids was just loaded
C15_Witness ==
    /\ delivered.endpoint = TagEndpoint
    /\ Len(movies) = 2
    /\ movies[1].id > movies[2].id
    /\ shown = movies

\* C16: every value a knob passes to onChange, by drag or by wheel, is in
\* 1..10, and settings that start in 1..10 and are changed only through the
\* knobs stay in 1..10.
C16_KnobRange ==
    /\ knob.onChange.called => knob.onChange.v \in 1..10
    /\ \A key \in SettingKeys : calibrationSettings[key] \in 1..10

\* a knob dragged below its range (rounded value 0, nothing passed on), and a
\* wheel step down at 1 that stays at 1
C16_Witness ==
    /\ \E key \in SettingKeys : knob.transformedValue[key] = 0
    /\ knob.onChange = Called(1, "wheel", 1)

\* C17: a call of searchKeywords never raises; for an empty or blank query it
\* returns the empty list and no request is made; after a rejected fetch or a
\* non-OK status it returns the empty list.
C17_SearchNeverRaises ==
    /\ \A i \in 1..Len(search.calls) : ~isBlank(search.calls[i].query)
    /\ search.returned.called =>
          /\ ~search.returned.result.raised
          /\ isBlank(search.returned.query) =>
                ~search.returned.fetched /\ search.returned.result.v = <<>>
          /\ (search.returned.fetched /\ searchFailed(search.returned.outcome)) =>
                search.returned.result.v = <<>>

\* a search that got a non-OK status has returned the empty list to handleSearch
C17_Witness ==
    /\ search.returned.called
    /\ search.returned.outcome = SearchFetch("status", FALSE, NoList)
    /\ search.returned.result = Returned(<<>>)
    /\ search.showSearchResults
    /\ ~search.isSearching

\* C18: the Next button is shown only after a status poll reported
\* 'completed', and while it is shown isProcessing is false and the status
\* shown is the completed one.
C18_NextButtonWhenComplete ==
    importPage.showNextButton =>
        /\ importPage.completedSeen
        /\ ~importPage.isProcessing
        /\ importPage.processingStatus = "completed"

\* C19: the connection check of the mounted provider ends, with isLoading
\* false; from then on isConnected is true exactly if the health check
\* succeeded and error is the connection message exactly if it failed.
C19_ConnectionCheckEnds ==
    /\ (api.health # "done") ~> (api.health = "done")
    /\ [](api.health = "done" =>
            /\ ~api.isLoading
            /\ api.isConnected <=> (api.healthy = "ok")
            /\ (api.error = ConnectError) <=> (api.healthy = "failed"))

\* C20: the /recommendations request of a call getRecommendations(userId,
\* {count, filters}) has the count and the filters of the options.
C20_OptionsSent ==
    api.request.endpoint = "/recommendations" =>
        /\ api.request.count = api.options.count
        /\ api.request.filters = api.options.filters

\* C21: when tags or calibration changed while a request was in flight and
\* stay fixed from then on, the page gets to the state where no fetch is
\* running and the list it shows was fetched for the current tags and
\* calibration (a request for the latest pair was issued and its list stays).
C21_LatestSetFetched ==
    (/\ fetchCall.pc # "idle"
     /\ \/ fetchCall.currentTagsHash # tagsHash(selectedTags)
        \/ fetchCall.currentCalibrationHash # calibrationHash(calibrationSettings))
    ~> (/\ fetchCall.pc = "idle"
        /\ hasLoadedRecommendations
        /\ lastTagsHash = tagsHash(selectedTags)
        /\ lastCalibrationHash = calibrationHash(calibrationSettings))

\* C22: once a status poll has reported 'completed' or 'error', the answer to
\* a poll that was still in flight changes none of processingStatus,
\* isProcessing and showNextButton.
C22_TerminalStatusKept ==
    [][(/\ importPage.reported # "none"
        /\ Len(importPage'.polls) < Len(importPage.polls))
       => /\ importPage'.processingStatus = importPage.processingStatus
          /\ importPage'.isProcessing = importPage.isProcessing
          /\ importPage'.showNextButton = importPage.showNextButton]_vars

\* C23: the LoadingPage shown during the connection check changes the route
\* to /tags only while it is mounted, and once the check has ended with the
\* API connected the route is /auth (nothing in this run is a user's action).
C23_NoNavigateAfterUnmount ==
    /\ [][(api'.route = "/tags" /\ api.route # "/tags") => api.isLoading]_vars
    /\ []((api.health = "done" /\ api.isConnected) => api.route = "/auth")

C25_VisiblePageNotEmpty ==
    /\ currentIndex >= 0
    /\ currentIndex % moviesPerPage = 0
    /\ Len(likedMovies) > 0 => currentIndex < Len(likedMovies)

\* C26: a render of the recommendations page (renderDue goes from true to
\* false) leaves selectedTags of the preferences context as it was, content
\* and order.
C26_RenderKeepsSelection ==
    [][(renderDue /\ ~renderDue') => selectedTags' = selectedTags]_vars
====
